---- MODULE Spec2Model ----
(***************************************************************************)
(* A model of functions/notify_teams.py: the Lambda handler that turns one *)
(* SNS notification into an adaptive card and posts it to a Teams webhook. *)
(*                                                                         *)
(* Representation of Python values                                         *)
(*   - a str taken from the input is a sequence of one-character strings,  *)
(*     so that lower(), split() and `in` can be computed on it; Str        *)
(*     renders such a sequence as a TLA+ string, which is what produced    *)
(*     strings (titles, colours, log lines) are;                           *)
(*   - a JSON value is a record [t, v]: t is its type ("str", "num",       *)
(*     "null", "arr", "obj") and v its content; an object's content is a   *)
(*     function from its keys to JSON values;                              *)
(*   - the Message string of a record is represented by the JSON value it  *)
(*     spells, or by [t |-> "text"] when it spells none;                   *)
(*   - json.dumps(x, indent=2) is kept as the items of x, in order;        *)
(*   - an exception is the name of its class.                              *)
(***************************************************************************)
EXTENDS Integers, Sequences, FiniteSets, TLC

VARIABLES
    event,          \* the invocation envelope handed to lambda_handler
    pc,             \* position of the handler
    steps,          \* pipeline steps entered so far, in order
    sns_record,     \* local sns_record (line 75)
    message_json,   \* local message_json (line 77)
    branch,         \* which arm of the if/elif/else (lines 81, 110, 114) ran
    base_data,      \* local base_data of the alarm arm (line 89)
    data,           \* local data (line 79, then one of lines 108, 112, 116)
    card_payload,   \* local card_payload (line 129)
    posted,         \* the requests handed to urlopen, in order
    delivery,       \* how the POST ended
    log,            \* the lines written through logger
    raised          \* the exception that left lambda_handler, or "none"

vars == <<event, pc, steps, sns_record, message_json, branch, base_data, data,
          card_payload, posted, delivery, log, raised>>

-----------------------------------------------------------------------------
(* Bounds of the model *)

\* longest errorMessage drawn from ErrAlphabet
MaxLen == 8
\* most records that follow the first one in an envelope
MaxExtraRecords == 1

-----------------------------------------------------------------------------
(* Python str operations *)

RECURSIVE Str(_)
Str(s) == IF s = <<>> THEN "" ELSE Head(s) \o Str(Tail(s))

UpperCase == <<"A","B","C","D","E","F","G","H","I","J","K","L","M",
               "N","O","P","Q","R","S","T","U","V","W","X","Y","Z">>
LowerCase == <<"a","b","c","d","e","f","g","h","i","j","k","l","m",
               "n","o","p","q","r","s","t","u","v","w","x","y","z">>

\* An ASCII character that a string of the language cannot hold stands in
\* the model as its escape \xNN: the grave accent (0x60) and the control
\* characters other than tab, line feed, form feed and carriage return.
Escaped ==
    {"\\x00","\\x01","\\x02","\\x03","\\x04","\\x05","\\x06","\\x07","\\x08",
     "\\x0b","\\x0e","\\x0f","\\x10","\\x11","\\x12","\\x13","\\x14","\\x15",
     "\\x16","\\x17","\\x18","\\x19","\\x1a","\\x1b","\\x1c","\\x1d","\\x1e",
     "\\x1f","\\x60","\\x7f"}

\* the ASCII characters str.lower() leaves as they are: all but A-Z
AsciiUncased ==
    Escaped \cup
    {LowerCase[i] : i \in 1..Len(LowerCase)}
    \cup {"0","1","2","3","4","5","6","7","8","9"}
    \cup {" ","!","\"","#","$","%","&","'","(",")","*","+",",","-",".","/",
          ":",";","<","=",">","?","@","[","]","^","_","{","|","}","~",
          "\\","\t","\n","\f","\r"}

\* str.lower() of one ASCII character, total on the 128 of them; the strs of
\* the model are ASCII, and the operator has no value on any other character
LowerChar(c) ==
    CASE \E i \in 1..Len(UpperCase) : UpperCase[i] = c
            -> LowerCase[CHOOSE i \in 1..Len(UpperCase) : UpperCase[i] = c]
      [] c \in AsciiUncased -> c

UpperChar(c) ==
    IF \E i \in 1..Len(LowerCase) : LowerCase[i] = c
    THEN UpperCase[CHOOSE i \in 1..Len(LowerCase) : LowerCase[i] = c]
    ELSE c

\* str.lower() of an ASCII str
Lower(s) == [i \in 1..Len(s) |-> LowerChar(s[i])]

\* str.upper()
Upper(s) == [i \in 1..Len(s) |-> UpperChar(s[i])]

\* `needle in hay` for two strs: substring test
Contains(hay, needle) ==
    \E i \in 0..(Len(hay) - Len(needle)) :
        SubSeq(hay, i + 1, i + Len(needle)) = needle

\* str.split(sep) for a one-character sep
RECURSIVE Split(_, _)
Split(s, sep) ==
    IF \A i \in 1..Len(s) : s[i] # sep
    THEN <<s>>
    ELSE LET i == CHOOSE k \in 1..Len(s) :
                      s[k] = sep /\ \A j \in 1..(k - 1) : s[j] # sep
         IN  <<SubSeq(s, 1, i - 1)>> \o Split(SubSeq(s, i + 1, Len(s)), sep)

-----------------------------------------------------------------------------
(* JSON values *)

JS(s)  == [t |-> "str",  v |-> s]
JN(n)  == [t |-> "num",  v |-> n]
JO(f)  == [t |-> "obj",  v |-> f]
JA(q)  == [t |-> "arr",  v |-> q]
None   == [t |-> "null", v |-> <<>>]
Text(s) == [t |-> "text", v |-> s]

Restrict(f, S) == [k \in S |-> f[k]]

\* dict.get(key, default)
Get(d, key, default) == IF key \in DOMAIN d THEN d[key] ELSE default

Digit == <<"0","1","2","3","4","5","6","7","8","9">>

\* str(n) of a natural number
RECURSIVE NatStr(_)
NatStr(n) ==
    IF n < 10 THEN Digit[n + 1] ELSE NatStr(n \div 10) \o Digit[(n % 10) + 1]

\* str(x) as an f-string field renders it, for a str, None or a natural
\* number; the repr of a list or a dict is not modelled
PyStr(x) ==
    CASE x.t = "str"  -> Str(x.v)
      [] x.t = "null" -> "None"
      [] x.t = "num"  -> NatStr(x.v)

Return(x) == [exc |-> "none", val |-> x]
Raise(e)  == [exc |-> e, val |-> <<>>]

\* json.loads(message)
json_loads(message) ==
    IF message.t = "text" THEN Raise("JSONDecodeError") ELSE Return(message)

(* String literals of the source, and of the inputs, as character sequences *)

c_AlarmName    == <<"A","l","a","r","m","N","a","m","e">>
c_UnknownEvent == <<"U","n","k","n","o","w","n","E","v","e","n","t">>
c_NoErrorMessage ==
    <<"N","o"," ","e","r","r","o","r"," ","m","e","s","s","a","g","e"," ",
      "p","r","o","v","i","d","e","d">>
c_Unknown      == <<"U","n","k","n","o","w","n">>
c_NoSubject    == <<"N","o"," ","S","u","b","j","e","c","t">>
c_alarm        == <<"a","l","a","r","m">>
c_ALARM        == <<"A","L","A","R","M">>
c_OK           == <<"O","K">>
c_my_alarm_name == <<"m","y","-","a","l","a","r","m","-","n","a","m","e">>
c_CloudTrailMarker ==
    <<"A","W","S"," ","S","e","r","v","i","c","e"," ","E","v","e","n","t"," ",
      "v","i","a"," ","C","l","o","u","d","T","r","a","i","l">>

\* os.environ['TEAMS_WEBHOOK_URL']: the URL of the webhook
HOOK_URL == "https://example.webhook.office.com/webhookb2/hook"

-----------------------------------------------------------------------------
(* The functions of the source *)

\* 'AlarmName' in message_json
AlarmNameIn(mj) ==
    CASE mj.t = "obj" -> Return("AlarmName" \in DOMAIN mj.v)
      [] mj.t = "arr" ->
            Return(\E i \in 1..Len(mj.v) : mj.v[i] = JS(c_AlarmName))
      [] mj.t = "str" -> Return(Contains(mj.v, c_AlarmName))
      [] OTHER -> Raise("TypeError")

is_cloudwatch_alarm(message) ==
    LET loaded == json_loads(message) IN
    IF loaded.exc = "JSONDecodeError" THEN Return(FALSE)
    ELSE AlarmNameIn(loaded.val)

\* the argument of json.dumps(..., indent=2): the dict's items in order
JsonDumps(items) == [json_dumps |-> items, indent |-> 2]

\* ':' in reason, for a reason that is a list (an element) or a dict (a key)
ColonIn(reason) ==
    IF reason.t = "arr"
    THEN \E i \in 1..Len(reason.v) : reason.v[i] = JS(<<":">>)
    ELSE ":" \in DOMAIN reason.v

\* the title expression of line 28 reading the segment before the seventh
CloudTrailTitleSixth(reason, alarm_name) ==
    CASE reason.t = "str" ->
            IF Contains(reason.v, <<":">>)
            THEN LET segments == Split(reason.v, ":") IN
                 IF Len(segments) < 6 THEN Raise("IndexError")
                 ELSE Return("Alert - " \o Str(Split(segments[6], " ")[1])
                             \o " - Issue: " \o PyStr(alarm_name))
            ELSE Return("Alert - Issue: " \o PyStr(alarm_name))
      [] reason.t \in {"arr", "obj"} ->
            IF ColonIn(reason) THEN Raise("AttributeError")
            ELSE Return("Alert - Issue: " \o PyStr(alarm_name))
      [] OTHER -> Raise("TypeError")

\* the title expression of line 28
CloudTrailTitle(reason, alarm_name) ==
    CASE reason.t = "str" ->
            IF Contains(reason.v, <<":">>)
            THEN LET segments == Split(reason.v, ":") IN
                 IF Len(segments) < 7 THEN Raise("IndexError")
                 ELSE Return("Alert - " \o Str(Split(segments[7], " ")[1])
                             \o " - Issue: " \o PyStr(alarm_name))
            ELSE Return("Alert - Issue: " \o PyStr(alarm_name))
      [] reason.t \in {"arr", "obj"} ->
            IF ColonIn(reason) THEN Raise("AttributeError")
            ELSE Return("Alert - Issue: " \o PyStr(alarm_name))
      [] OTHER -> Raise("TypeError")

parse_cloudtrail_event(detail) ==
    IF detail.t # "obj" THEN Raise("AttributeError") ELSE
    LET alarm_name == Get(detail.v, "eventName", JS(c_UnknownEvent))
        reason     == Get(detail.v, "errorMessage", JS(c_NoErrorMessage))
        title      == CloudTrailTitle(reason, alarm_name)
    IN  IF title.exc # "none" THEN title
        ELSE Return([colour |-> "Attention",
                     title  |-> title.val,
                     text   |-> JsonDumps(<<
                        <<"Subject",   alarm_name>>,
                        <<"Type",      Get(detail.v, "eventType", JS(c_Unknown))>>,
                        <<"MessageId", Get(detail.v, "eventID", JS(c_Unknown))>>,
                        <<"Message",   reason>>,
                        <<"Timestamp", Get(detail.v, "eventTime", JS(c_Unknown))>> >>)])

build_adaptive_card(d) ==
    [type |-> "message",
     attachments |-> <<
        [contentType |-> "application/vnd.microsoft.card.adaptive",
         content |->
            ("$schema" :> "http://adaptivecards.io/schemas/adaptive-card.json")
            @@ [type    |-> "AdaptiveCard",
                version |-> "1.5",
                body    |-> <<
                    [type   |-> "TextBlock",
                     text   |-> d["title"],
                     weight |-> "Bolder",
                     size   |-> "Medium",
                     color  |-> Get(d, "colour", "Default")],
                    [type |-> "TextBlock",
                     text |-> d["text"],
                     wrap |-> TRUE] >>]] >>]

\* the test of lines 90 and 91 without lower()
NotAlarmExactCase(new_state) ==
    IF new_state.t # "str" THEN Raise("AttributeError")
    ELSE Return(new_state.v # c_alarm)

\* new_state.lower() != 'alarm', the test of lines 90 and 91
NotAlarm(new_state) ==
    IF new_state.t # "str" THEN Raise("AttributeError")
    ELSE Return(Lower(new_state.v) # c_alarm)

\* lines 89-93
BaseData(alarm_name, old_state, new_state, reason) ==
    LET not_alarm == NotAlarm(new_state) IN
    IF not_alarm.exc # "none" THEN not_alarm
    ELSE Return(
        [colour |-> IF not_alarm.val THEN "Good" ELSE "Attention",
         title  |-> (IF not_alarm.val THEN "Resolved" ELSE "Red Alert")
                    \o " - " \o PyStr(alarm_name),
         text   |-> "**" \o PyStr(alarm_name) \o "** changed from **"
                    \o PyStr(old_state) \o "** to **" \o PyStr(new_state)
                    \o "**\n\nReason: " \o PyStr(reason)])

\* lines 95-106
overrides ==
    (<<JS(c_ALARM), JS(c_my_alarm_name)>> :>
        [colour |-> "Attention",
         title  |-> "Red Alert - A bad thing happened.",
         text   |-> "These are the specific details of the bad thing."])
    @@
    (<<JS(c_OK), JS(c_my_alarm_name)>> :>
        [colour |-> "Good",
         title  |-> "The bad thing stopped happening",
         text   |-> "These are the specific details of how we know the bad thing stopped happening"])

\* line 108 looking the state up in upper case
OverridesGetUpper(new_state, alarm_name, default) ==
    Get(overrides, <<JS(Upper(new_state.v)), alarm_name>>, default)

\* overrides.get((new_state, alarm_name), base_data), line 108
OverridesGet(new_state, alarm_name, default) ==
    Get(overrides, <<new_state, alarm_name>>, default)

\* the alarm arm, lines 82-108: the data it binds, with base_data
AlarmArm(mj) ==
    IF mj.t # "obj" THEN Raise("TypeError")
    ELSE IF \E k \in {"AlarmName", "OldStateValue", "NewStateValue", "NewStateReason"} :
                k \notin DOMAIN mj.v
    THEN Raise("KeyError")
    ELSE IF NotAlarm(mj.v["NewStateValue"]).exc # "none"
    THEN NotAlarm(mj.v["NewStateValue"])
    \* a list or a dict in the key of line 108 is unhashable
    ELSE IF mj.v["AlarmName"].t \in {"arr", "obj"} THEN Raise("TypeError")
    ELSE LET base == BaseData(mj.v["AlarmName"], mj.v["OldStateValue"],
                              mj.v["NewStateValue"], mj.v["NewStateReason"])
         IN  Return([base_data |-> base.val,
                     data |-> OverridesGet(mj.v["NewStateValue"],
                                           mj.v["AlarmName"], base.val)])

\* the audit arm, line 112
AuditArm(mj) ==
    IF "detail" \notin DOMAIN mj.v THEN Raise("KeyError")
    ELSE parse_cloudtrail_event(mj.v["detail"])

\* the generic arm with the title's default left out
GenericArmNoDefault(rec) ==
    Return([colour |-> "Warning",
            title  |-> "Alert - " \o PyStr(Get(rec, "Subject", None)),
            text   |-> JsonDumps(<<
                <<"Subject",   Get(rec, "Subject", None)>>,
                <<"Type",      Get(rec, "Type", None)>>,
                <<"MessageId", Get(rec, "MessageId", None)>>,
                <<"TopicArn",  Get(rec, "TopicArn", None)>>,
                <<"Message",   Get(rec, "Message", None)>>,
                <<"Timestamp", Get(rec, "Timestamp", None)>> >>)])

\* the generic arm, lines 116-127
GenericArm(rec) ==
    Return([colour |-> "Warning",
            title  |-> "Alert - " \o PyStr(Get(rec, "Subject", JS(c_NoSubject))),
            text   |-> JsonDumps(<<
                <<"Subject",   Get(rec, "Subject", None)>>,
                <<"Type",      Get(rec, "Type", None)>>,
                <<"MessageId", Get(rec, "MessageId", None)>>,
                <<"TopicArn",  Get(rec, "TopicArn", None)>>,
                <<"Message",   Get(rec, "Message", None)>>,
                <<"Timestamp", Get(rec, "Timestamp", None)>> >>)])

\* the tests of lines 81 and 110: the arm chosen, or the exception
SelectBranch(message, mj) ==
    LET has == AlarmNameIn(mj) IN
    IF has.exc # "none" THEN has
    ELSE IF has.val /\ is_cloudwatch_alarm(message).val THEN Return("alarm")
    ELSE IF mj.t # "obj" THEN Raise("AttributeError")
    ELSE IF Get(mj.v, "detail-type", None) = JS(c_CloudTrailMarker)
         THEN Return("audit")
    ELSE Return("generic")

-----------------------------------------------------------------------------
(* The invocations considered.  The fields of an alarm and of a detail     *)
(* object are JSON strings, as CloudWatch and CloudTrail send them, and in *)
(* OddAlarmMessages and OddDetails some are values of another JSON type.   *)

c_E1        == <<"E","1">>
c_E2        == <<"E","2">>
c_cpu_high  == <<"c","p","u","-","h","i","g","h">>
c_DiskFull  == <<"D","i","s","k"," ","f","u","l","l">>
c_Threshold == <<"T","h","r","e","s","h","o","l","d"," ","c","r","o","s","s","e","d">>
c_Insufficient ==
    <<"I","N","S","U","F","F","I","C","I","E","N","T","_","D","A","T","A">>
c_Example ==
    <<"a",":","b",":","c",":","d",":","e",":","f",":",
      "t","o","k","e","n"," ","e","x","t","r","a">>
c_Denied  == <<"d","e","n","i","e","d",":"," ","n","o">>
c_hello   == <<"h","e","l","l","o">>
c_seeAlarmName ==
    <<"s","e","e"," ","A","l","a","r","m","N","a","m","e">>
c_lowerMarker ==
    <<"a","w","s"," ","s","e","r","v","i","c","e"," ","e","v","e","n","t"," ",
      "v","i","a"," ","c","l","o","u","d","t","r","a","i","l">>
c_Notification == <<"N","o","t","i","f","i","c","a","t","i","o","n">>
c_m1  == <<"m","-","1">>
c_arn == <<"a","r","n",":","a","w","s",":","s","n","s",":","t">>
c_time == <<"2","0","2","4","-","0","1","-","0","1">>
c_AwsApiCall == <<"A","w","s","A","p","i","C","a","l","l">>

ErrAlphabet == {":", " ", "t"}

\* every string over ErrAlphabet of length at most n
BoundedStrs(n) == UNION {[1..k -> ErrAlphabet] : k \in 0..n}

ErrorMessages == BoundedStrs(MaxLen) \cup {c_Example, c_Denied}

\* "alarm" in every mix of upper and lower case
AlarmSpellings ==
    {s \in [1..Len(c_alarm) -> {"a","A","l","L","r","R","m","M"}] :
        \A i \in 1..Len(c_alarm) : s[i] \in {c_alarm[i], UpperChar(c_alarm[i])}}

NewStates ==
    AlarmSpellings \cup {c_OK, <<"o","k">>, c_Insufficient, <<>>,
                         <<"a","l","a","r","m","s">>, <<"a","l","a","r">>,
                         <<"A","L","\\x01","A","R","M">>, <<"O","K","\\x7f">>,
                         <<"a","\\","L","A","R","M">>}

AlarmFields(name, new_state) ==
    [AlarmName      |-> JS(name),
     OldStateValue  |-> JS(c_Insufficient),
     NewStateValue  |-> JS(new_state),
     NewStateReason |-> JS(c_Threshold)]
    @@ ("detail-type" :> JS(c_CloudTrailMarker))

\* objects with key AlarmName, with and without the other alarm fields and
\* the audit marker
AlarmMessages ==
    {JO(Restrict(AlarmFields(name, new_state), {"AlarmName"} \cup ks)) :
        name \in {c_my_alarm_name, c_cpu_high},
        new_state \in NewStates,
        ks \in SUBSET {"OldStateValue", "NewStateValue", "NewStateReason",
                       "detail-type"}}

\* values that are no JSON string
NonStrings == {None, JN(5), JN(12), JA(<<>>), JA(<<JS(<<":">>)>>),
               JO(<<>>), JO(":" :> None)}

\* complete alarms with one field that is no string; a list or a dict is
\* put only where the code does not render it
OddAlarmMessages ==
    {JO([AlarmFields(c_cpu_high, new_state) EXCEPT ![k] = x]) :
        new_state \in {c_ALARM, c_OK},
        k \in {"AlarmName", "NewStateValue"},
        x \in NonStrings}
    \cup
    {JO([AlarmFields(c_my_alarm_name, c_ALARM) EXCEPT ![k] = x]) :
        k \in {"OldStateValue", "NewStateReason"},
        x \in {None, JN(5), JN(12)}}

DetailFields(name, reason) ==
    [eventName    |-> JS(name),
     errorMessage |-> JS(reason),
     eventType    |-> JS(c_AwsApiCall),
     eventID      |-> JS(c_m1),
     eventTime    |-> JS(c_time)]

Details ==
    {JO(Restrict(DetailFields(c_E1, reason), ks)) :
        reason \in ErrorMessages,
        ks \in {{"errorMessage"},
                {"eventName", "errorMessage", "eventType", "eventID", "eventTime"}}}
    \cup
    {JO(Restrict(DetailFields(name, c_Example), ks)) :
        name \in {c_E1, c_E2},
        ks \in {{}, {"eventName"}, {"eventName", "errorMessage"},
                {"eventName", "eventType", "eventID", "eventTime"}}}
    \cup
    {JO(Restrict(DetailFields(c_E2, <<"n","o","n","e">>), {"eventName", "errorMessage"}))}

\* a detail that is no object, or one with a field that is no string
OddDetails ==
    {None, JN(5), JS(c_hello), JA(<<>>)}
    \cup
    {JO([DetailFields(c_E1, reason) EXCEPT !["errorMessage"] = x]) :
        reason \in {c_Example}, x \in NonStrings}
    \cup
    {JO([DetailFields(c_E1, reason) EXCEPT !["eventName"] = x]) :
        reason \in {c_Example, c_hello, c_Denied}, x \in {None, JN(5), JN(12)}}

\* objects without AlarmName that carry the audit marker
AuditMessages ==
    {JO(("detail-type" :> JS(c_CloudTrailMarker)) @@ ("detail" :> d)) :
        d \in Details \cup OddDetails}
    \cup {JO("detail-type" :> JS(c_CloudTrailMarker))}

\* everything else: text that is no JSON, JSON that is no object, and objects
\* with neither AlarmName nor the audit marker
OtherMessages ==
    {Text(c_hello), Text(c_seeAlarmName),
     JN(5), None,
     JS(c_hello), JS(c_seeAlarmName), JS(c_AlarmName),
     JA(<<>>), JA(<<JS(c_hello)>>), JA(<<JS(c_hello), JS(c_AlarmName)>>),
     JO(<<>>),
     JO("detail-type" :> JS(c_lowerMarker)),
     JO(("detail-type" :> None) @@ ("detail" :> JO(<<>>))),
     JO("alarmname" :> JS(c_cpu_high))}

Metadata ==
    [Type      |-> JS(c_Notification),
     MessageId |-> JS(c_m1),
     TopicArn  |-> JS(c_arn),
     Timestamp |-> JS(c_time)]

SubjectFields ==
    {<<>>, [Subject |-> None], [Subject |-> JN(12)], [Subject |-> JS(c_DiskFull)]}

\* the Sns part of a record
SnsRecords(messages, subjects, metas) ==
    {[Message |-> m] @@ subj @@ meta :
        m \in messages, subj \in subjects, meta \in metas}

OtherRecords == SnsRecords(OtherMessages, SubjectFields, {<<>>, Metadata})
AlarmRecords == SnsRecords(AlarmMessages \cup OddAlarmMessages, {[Subject |-> JS(c_DiskFull)]}, {Metadata})
AuditRecords == SnsRecords(AuditMessages, {<<>>}, {Metadata})

\* a record that is never the first one
LaterRecord ==
    [Sns |-> [Message |-> JO(Restrict(AlarmFields(c_cpu_high, c_ALARM),
                                      {"AlarmName", "OldStateValue",
                                       "NewStateValue", "NewStateReason"}))]]

Events ==
    {[Records |-> <<>>]}
    \cup {[Records |-> <<[Sns |-> r]>>] :
            r \in OtherRecords \cup AlarmRecords \cup AuditRecords}
    \cup {[Records |-> <<[Sns |-> r]>> \o [i \in 1..k |-> LaterRecord]] :
            r \in OtherRecords, k \in 1..MaxExtraRecords}

-----------------------------------------------------------------------------
(* lambda_handler *)

Unset == [t |-> "unset", v |-> <<>>]

Init ==
    /\ event \in Events
    /\ pc = "unwrap"
    /\ steps = <<>>
    /\ sns_record = <<>>
    /\ message_json = Unset
    /\ branch = "none"
    /\ base_data = <<>>
    /\ data = <<>>
    /\ card_payload = <<>>
    /\ posted = <<>>
    /\ delivery = "none"
    /\ log = <<>>
    /\ raised = "none"

\* lines 74-76
Unwrap ==
    /\ pc = "unwrap"
    /\ steps' = Append(steps, "unwrap")
    /\ log' = Append(log, "Event: %s")
    /\ IF Len(event.Records) = 0
       THEN /\ raised' = "IndexError"
            /\ pc' = "raised"
            /\ UNCHANGED sns_record
       ELSE /\ sns_record' = event.Records[1].Sns
            /\ pc' = "classify"
            /\ UNCHANGED raised
    /\ UNCHANGED <<event, message_json, branch, base_data, data, card_payload,
                   posted, delivery>>

\* lines 77-81, 110 and 114
Classify ==
    /\ pc = "classify"
    /\ steps' = Append(steps, "classify")
    /\ LET message == sns_record["Message"]
           loaded  == json_loads(message)
       IN  IF loaded.exc # "none"
           THEN /\ raised' = loaded.exc
                /\ pc' = "raised"
                /\ UNCHANGED <<message_json, branch>>
           ELSE LET chosen == SelectBranch(message, loaded.val) IN
                /\ message_json' = loaded.val
                /\ IF chosen.exc # "none"
                   THEN /\ raised' = chosen.exc
                        /\ pc' = "raised"
                        /\ UNCHANGED branch
                   ELSE /\ branch' = chosen.val
                        /\ pc' = "format"
                        /\ UNCHANGED raised
    /\ UNCHANGED <<event, sns_record, base_data, data, card_payload, posted,
                   delivery, log>>

\* what the chosen arm logs before it binds data
ArmLog(arm, result) ==
    CASE arm = "alarm" ->
            IF result.exc \in {"none", "AttributeError"}
               \/ (result.exc = "TypeError" /\ message_json.t = "obj")
            THEN <<"CloudWatch Alarm: %s">> ELSE <<>>
      [] arm = "audit" ->
            IF "detail" \in DOMAIN message_json.v
            THEN <<"Parsing CloudTrail event", "CloudTrail detail: %s">>
            ELSE <<"Parsing CloudTrail event">>
      [] OTHER -> <<"Fallback SNS message">>

\* lines 82-108, 111-112 or 115-127, then line 129
Format ==
    /\ pc = "format"
    /\ steps' = Append(steps, "format")
    /\ LET result == CASE branch = "alarm" -> AlarmArm(message_json)
                       [] branch = "audit" -> AuditArm(message_json)
                       [] OTHER -> GenericArm(sns_record)
       IN  /\ log' = log \o ArmLog(branch, result)
           /\ IF result.exc # "none"
              THEN /\ raised' = result.exc
                   /\ pc' = "raised"
                   /\ UNCHANGED <<base_data, data, card_payload>>
              ELSE /\ base_data' = IF branch = "alarm" THEN result.val.base_data
                                   ELSE base_data
                   /\ data' = IF branch = "alarm" THEN result.val.data
                              ELSE result.val
                   /\ card_payload' = build_adaptive_card(data')
                   /\ pc' = "deliver"
                   /\ UNCHANGED raised
    /\ UNCHANGED <<event, sns_record, message_json, branch, posted, delivery>>

\* the exception classes of builtins, socket, ssl, http.client and
\* urllib.error, each with its direct bases: what a call can raise
ExceptionBases ==
    [Exception |-> {}, ArithmeticError |-> {"Exception"},
     AssertionError |-> {"Exception"}, AttributeError |-> {"Exception"},
     BadStatusLine |-> {"HTTPException"}, BlockingIOError |-> {"OSError"},
     BrokenPipeError |-> {"ConnectionError"}, BufferError |-> {"Exception"},
     CannotSendHeader |-> {"ImproperConnectionState"},
     CannotSendRequest |-> {"ImproperConnectionState"},
     ChildProcessError |-> {"OSError"},
     ConnectionAbortedError |-> {"ConnectionError"},
     ConnectionError |-> {"OSError"},
     ConnectionRefusedError |-> {"ConnectionError"},
     ConnectionResetError |-> {"ConnectionError"},
     ContentTooShortError |-> {"URLError"}, EOFError |-> {"Exception"},
     FileExistsError |-> {"OSError"}, FileNotFoundError |-> {"OSError"},
     FloatingPointError |-> {"ArithmeticError"}, HTTPError |-> {"URLError"},
     HTTPException |-> {"Exception"}, ImportError |-> {"Exception"},
     ImproperConnectionState |-> {"HTTPException"},
     IncompleteRead |-> {"HTTPException"},
     IndentationError |-> {"SyntaxError"}, IndexError |-> {"LookupError"},
     InterruptedError |-> {"OSError"}, InvalidURL |-> {"HTTPException"},
     IsADirectoryError |-> {"OSError"}, KeyError |-> {"LookupError"},
     LineTooLong |-> {"HTTPException"}, LookupError |-> {"Exception"},
     MemoryError |-> {"Exception"}, ModuleNotFoundError |-> {"ImportError"},
     NameError |-> {"Exception"}, NotADirectoryError |-> {"OSError"},
     NotConnected |-> {"HTTPException"},
     NotImplementedError |-> {"RuntimeError"}, OSError |-> {"Exception"},
     OverflowError |-> {"ArithmeticError"}, PermissionError |-> {"OSError"},
     ProcessLookupError |-> {"OSError"}, RecursionError |-> {"RuntimeError"},
     ReferenceError |-> {"Exception"},
     RemoteDisconnected |-> {"BadStatusLine", "ConnectionResetError"},
     ResponseNotReady |-> {"ImproperConnectionState"},
     RuntimeError |-> {"Exception"},
     SSLCertVerificationError |-> {"SSLError", "ValueError"},
     SSLEOFError |-> {"SSLError"}, SSLError |-> {"OSError"},
     SSLSyscallError |-> {"SSLError"}, SSLWantReadError |-> {"SSLError"},
     SSLWantWriteError |-> {"SSLError"}, SSLZeroReturnError |-> {"SSLError"},
     StopAsyncIteration |-> {"Exception"}, StopIteration |-> {"Exception"},
     SyntaxError |-> {"Exception"}, SystemError |-> {"Exception"},
     TabError |-> {"IndentationError"}, TimeoutError |-> {"OSError"},
     TypeError |-> {"Exception"}, URLError |-> {"OSError"},
     UnboundLocalError |-> {"NameError"},
     UnicodeDecodeError |-> {"UnicodeError"},
     UnicodeEncodeError |-> {"UnicodeError"},
     UnicodeError |-> {"ValueError"},
     UnicodeTranslateError |-> {"UnicodeError"},
     UnimplementedFileMode |-> {"HTTPException"},
     UnknownProtocol |-> {"HTTPException"},
     UnknownTransferEncoding |-> {"HTTPException"},
     ValueError |-> {"Exception"}, ZeroDivisionError |-> {"ArithmeticError"},
     gaierror |-> {"OSError"}, herror |-> {"OSError"}]

Exceptions == DOMAIN ExceptionBases

\* issubclass(c, d)
RECURSIVE IsSubclass(_, _)
IsSubclass(c, d) == c = d \/ \E b \in ExceptionBases[c] : IsSubclass(b, d)

\* the errors the except clauses of lines 140-143 catch: HTTPError, URLError
\* and their subclasses
CaughtErrors ==
    {e \in Exceptions : IsSubclass(e, "HTTPError") \/ IsSubclass(e, "URLError")}

\* every other exception leaves lambda_handler: the webhook closes or resets
\* the connection once the request is read, answers something that is no
\* HTTP, redirects to something that is no URL, ends the body early, ...
UncaughtErrors == Exceptions \ CaughtErrors

\* what urlopen and response.read() can do with the request
PostOutcomes == {"ok"} \cup Exceptions

\* the except clauses are tried in order, HTTPError first
DeliveryLog(outcome) ==
    IF outcome = "ok" THEN "Message posted successfully."
    ELSE IF IsSubclass(outcome, "HTTPError") THEN "Request failed: %d %s"
    ELSE "Server connection failed: %s"

\* the Request of lines 132-136; data holds the card before json.dumps
Request ==
    [url     |-> HOOK_URL,
     data    |-> card_payload,
     headers |-> ("Content-Type" :> "application/json")]

\* lines 131-143 posting again after a failure
DeliverRetrying ==
    /\ pc = "deliver"
    /\ Len(posted) < 3
    /\ steps' = IF posted = <<>> THEN Append(steps, "deliver") ELSE steps
    /\ posted' = Append(posted, Request)
    /\ \E outcome \in PostOutcomes :
        /\ delivery' = outcome
        /\ IF outcome \in UncaughtErrors
           THEN /\ raised' = outcome
                /\ pc' = "raised"
                /\ UNCHANGED log
           ELSE /\ log' = Append(log, DeliveryLog(outcome))
                /\ pc' = IF outcome = "ok" THEN "done" ELSE "deliver"
                /\ UNCHANGED raised
    /\ UNCHANGED <<event, sns_record, message_json, branch, base_data, data,
                   card_payload>>

\* lines 131-143
Deliver ==
    /\ pc = "deliver"
    /\ steps' = Append(steps, "deliver")
    /\ posted' = Append(posted, Request)
    /\ \E outcome \in PostOutcomes :
        /\ delivery' = outcome
        /\ IF outcome \in UncaughtErrors
           THEN /\ raised' = outcome
                /\ pc' = "raised"
                /\ UNCHANGED log
           ELSE /\ log' = Append(log, DeliveryLog(outcome))
                /\ pc' = "done"
                /\ UNCHANGED raised
    /\ UNCHANGED <<event, sns_record, message_json, branch, base_data, data,
                   card_payload>>

Next == Unwrap \/ Classify \/ Format \/ Deliver

Spec == Init /\ [][Next]_vars

-----------------------------------------------------------------------------
(* Vocabulary of the properties *)

Pipeline == <<"unwrap", "classify", "format", "deliver">>

Entered(step) == \E i \in 1..Len(steps) : steps[i] = step

\* the Message of the record being handled, once unwrapped
HasRecord == "Message" \in DOMAIN sns_record
Message   == sns_record["Message"]

\* the invocation ended with an exception before the delivery step
Aborted == pc = "raised" /\ ~Entered("deliver")

\* the arm has bound data and the card is built
Formatted == pc \in {"deliver", "done"}

IsObjectWith(m, key) == m.t = "obj" /\ key \in DOMAIN m.v

NumColons(s) == Cardinality({i \in 1..Len(s) : s[i] = ":"})

\* fc is what follows the sixth colon of s, up to the next colon or space
IsFaultCode(s, fc) ==
    \E i \in 1..Len(s) :
        /\ s[i] = ":"
        /\ Cardinality({k \in 1..i : s[k] = ":"}) = 6
        /\ \E j \in i..Len(s) :
            /\ fc = SubSeq(s, i + 1, j)
            /\ \A k \in (i + 1)..j : s[k] \notin {":", " "}
            /\ j = Len(s) \/ s[j + 1] \in {":", " "}

\* s spells "alarm" in some mix of upper and lower case
SpellsAlarm(s) ==
    /\ Len(s) = 5
    /\ s[1] \in {"a", "A"}
    /\ s[2] \in {"l", "L"}
    /\ s[3] \in {"a", "A"}
    /\ s[4] \in {"r", "R"}
    /\ s[5] \in {"m", "M"}

AlarmEntry ==
    [colour |-> "Attention",
     title  |-> "Red Alert - A bad thing happened.",
     text   |-> "These are the specific details of the bad thing."]

OkEntry ==
    [colour |-> "Good",
     title  |-> "The bad thing stopped happening",
     text   |-> "These are the specific details of how we know the bad thing stopped happening"]

\* what an f-string shows of a field
Shown(x) ==
    CASE x.t = "str"  -> Str(x.v)
      [] x.t = "null" -> "None"
      [] x.t = "num"  -> IF x.v = 5 THEN "5" ELSE "12"

\* the fields of the alarm being formatted; the new state of a formatted
\* alarm is a str, and TheNewState is its characters
TheAlarmName == message_json.v["AlarmName"]
TheOldState  == message_json.v["OldStateValue"]
TheNewState  == message_json.v["NewStateValue"].v
TheReason    == message_json.v["NewStateReason"]

\* the detail object being formatted, and its fields with their defaults
TheDetail == message_json.v["detail"].v
EventNameText ==
    IF "eventName" \in DOMAIN TheDetail THEN Shown(TheDetail["eventName"])
    ELSE "UnknownEvent"
\* the message has a detail object whose errorMessage is absent or a str
HasStrErrorMessage ==
    /\ "detail" \in DOMAIN message_json.v
    /\ message_json.v["detail"].t = "obj"
    /\ "errorMessage" \in DOMAIN TheDetail => TheDetail["errorMessage"].t = "str"
ErrorMessageChars ==
    IF "errorMessage" \in DOMAIN TheDetail THEN TheDetail["errorMessage"].v
    ELSE c_NoErrorMessage

-----------------------------------------------------------------------------
(* C1 *)

\* C1: an invocation whose Message is not valid JSON does not raise; it takes
\* the generic branch and goes on to build and deliver the generic card.
C1_NonJsonTakesGenericBranch ==
    (HasRecord /\ Message.t = "text" /\ Entered("classify"))
        => /\ ~Aborted
           /\ branch = "generic"
           /\ pc \in {"format", "deliver", "done"}

(* C2 *)

\* C2: once the delivery step has run, whatever the outcome of the POST
\* (success, an HTTP error status, a network or connection failure), the
\* handler has ended normally: nothing was raised, a failure was logged and
\* not retried.
C2_DeliveryFailureIsSwallowed ==
    Entered("deliver")
        => /\ pc = "done"
           /\ raised = "none"
           /\ Len(posted) = 1
           /\ delivery = "HTTPError" => log[Len(log)] = "Request failed: %d %s"
           /\ (delivery # "ok" /\ delivery # "HTTPError")
                => log[Len(log)] = "Server connection failed: %s"

(* C3 *)

\* the branch the decision order of C3 gives a decoded payload
C3_ExpectedBranch(m) ==
    IF IsObjectWith(m, "AlarmName") THEN "alarm"
    ELSE IF IsObjectWith(m, "detail-type")
            /\ m.v["detail-type"] = JS(c_CloudTrailMarker) THEN "audit"
    ELSE "generic"

\* C3: for a Message that decodes as JSON the branch is decided in the order
\* alarm (an object with AlarmName), audit (detail-type is the marker),
\* generic; a decoded payload that is no object goes to generic.
C3_DecisionOrder ==
    (HasRecord /\ Message.t # "text" /\ Entered("classify"))
        => branch = C3_ExpectedBranch(Message)

(* C4 *)

\* C4: in the alarm branch, with no override entry matching, for every
\* NewStateValue that is a string the colour is "Attention" iff
\* NewStateValue lowercased is "alarm" and "Good" otherwise,
\* and the title is "Red Alert - {alarmName}" with "Attention" and
\* "Resolved - {alarmName}" with "Good".
C4_ColourIffAlarm ==
    (branch = "alarm" /\ Formatted
     /\ ~(TheAlarmName = JS(c_my_alarm_name) /\ TheNewState \in {c_ALARM, c_OK}))
        => /\ data.colour = "Attention" <=> SpellsAlarm(TheNewState)
           /\ data.colour = "Good" <=> ~SpellsAlarm(TheNewState)
           /\ data.title = (IF data.colour = "Attention" THEN "Red Alert - "
                            ELSE "Resolved - ") \o Shown(TheAlarmName)

C4_Witness ==
    /\ branch = "alarm"
    /\ Formatted
    /\ TheNewState = <<"A","l","a","r","M">>
    /\ TheAlarmName = JS(c_my_alarm_name)
    /\ data.colour = "Attention"
    /\ data.title = "Red Alert - my-alarm-name"

(* C5 *)

\* C5: in the alarm branch the override table is looked up with the exact,
\* case-sensitive pair (NewStateValue, AlarmName): on a match the card data is
\* the entry's literal colour, title and text; otherwise it is the computed
\* default; the computed default is left as computed either way.
C5_OverrideExactPair ==
    (branch = "alarm" /\ Formatted)
        => /\ data = (CASE TheAlarmName = JS(c_my_alarm_name) /\ TheNewState = c_ALARM
                             -> AlarmEntry
                        [] TheAlarmName = JS(c_my_alarm_name) /\ TheNewState = c_OK
                             -> OkEntry
                        [] OTHER -> base_data)
           /\ base_data.title = (IF SpellsAlarm(TheNewState) THEN "Red Alert - "
                                 ELSE "Resolved - ") \o Shown(TheAlarmName)
           /\ base_data.colour = (IF SpellsAlarm(TheNewState) THEN "Attention"
                                  ELSE "Good")
           /\ base_data.text = "**" \o Shown(TheAlarmName) \o "** changed from **"
                               \o Shown(TheOldState) \o "** to **" \o Str(TheNewState)
                               \o "**\n\nReason: " \o Shown(TheReason)

C5_Witness ==
    /\ branch = "alarm"
    /\ Formatted
    /\ TheAlarmName = JS(c_my_alarm_name)
    /\ TheNewState = c_OK
    /\ data = OkEntry
    /\ base_data.title = "Resolved - my-alarm-name"

(* C6 *)

\* C6: in the audit branch, for a detail object whose errorMessage is absent
\* or a string, the colour is "Attention"; an errorMessage without
\* a colon gives the title "Alert - Issue: {eventName}", one with at least 7
\* colon-delimited segments gives "Alert - {faultCode} - Issue: {eventName}",
\* faultCode being the first space-delimited token of the 7th segment; absent
\* eventName and errorMessage count as "UnknownEvent" and "No error message
\* provided".
C6_AuditTitle ==
    (branch = "audit" /\ Entered("format") /\ HasStrErrorMessage
     /\ (NumColons(ErrorMessageChars) = 0 \/ NumColons(ErrorMessageChars) >= 6))
        => /\ ~Aborted
           /\ data.colour = "Attention"
           /\ NumColons(ErrorMessageChars) = 0
                => data.title = "Alert - Issue: " \o EventNameText
           /\ NumColons(ErrorMessageChars) >= 6
                => \E fc \in {SubSeq(ErrorMessageChars, i, j) :
                                i \in 1..(Len(ErrorMessageChars) + 1),
                                j \in 0..Len(ErrorMessageChars)} :
                      /\ IsFaultCode(ErrorMessageChars, fc)
                      /\ data.title = "Alert - " \o Str(fc) \o " - Issue: "
                                      \o EventNameText
           /\ (ErrorMessageChars = c_Example /\ EventNameText = "E1")
                => data.title = "Alert - token - Issue: E1"

C6_Witness ==
    /\ branch = "audit"
    /\ Formatted
    /\ HasStrErrorMessage
    /\ ErrorMessageChars = c_Example
    /\ data.title = "Alert - token - Issue: E1"
    /\ data.colour = "Attention"

(* C7 *)

\* C7: in the generic branch the colour is "Warning"; the title is
\* "Alert - No Subject" for a record without Subject and "Alert - {subject}"
\* for a record with one.
C7_GenericTitle ==
    (branch = "generic" /\ Entered("format"))
        => /\ ~Aborted
           /\ data.colour = "Warning"
           /\ "Subject" \notin DOMAIN sns_record
                => data.title = "Alert - No Subject"
           /\ ("Subject" \in DOMAIN sns_record /\ sns_record["Subject"].t = "str")
                => data.title = "Alert - " \o Str(sns_record["Subject"].v)

C7_Witness ==
    /\ branch = "generic"
    /\ Formatted
    /\ "Subject" \notin DOMAIN sns_record
    /\ data.title = "Alert - No Subject"
    /\ data.colour = "Warning"

(* C8 *)

\* C8: in the audit branch an errorMessage with a colon but fewer than 7
\* colon-delimited segments ends the title derivation with the error
\* FormatError, and no card is posted.
C8_ShortMessageIsFormatError ==
    (branch = "audit" /\ Entered("format") /\ HasStrErrorMessage
     /\ NumColons(ErrorMessageChars) \in 1..5)
        => /\ raised = "FormatError"
           /\ posted = <<>>

(* C9 *)

\* C9: in the alarm branch an object that lacks OldStateValue, NewStateValue
\* or NewStateReason ends the invocation with the error MissingAlarmField;
\* no card is built from blanks and none is posted.
C9_MissingFieldIsMissingAlarmField ==
    (branch = "alarm" /\ Entered("format") /\ message_json.t = "obj"
     /\ \E k \in {"OldStateValue", "NewStateValue", "NewStateReason"} :
            k \notin DOMAIN message_json.v)
        => /\ raised = "MissingAlarmField"
           /\ posted = <<>>

(* C10 *)

\* C10: the steps of an invocation occur in the order unwrap, classify,
\* format, deliver; at most one POST is made: one when unwrap, classify and
\* format completed, none when the invocation aborted before delivery; a
\* failed POST, caught or not, is not followed by another.
C10_OnePostInOrder ==
    /\ steps = SubSeq(Pipeline, 1, Len(steps))
    /\ Len(posted) <= 1
    /\ Len(posted) = 1 <=> Entered("deliver")
    /\ pc = "done" => (Len(posted) = 1 /\ steps = Pipeline)
    /\ (pc = "raised" /\ delivery = "none") => (posted = <<>> /\ ~Entered("deliver"))
    /\ Formatted => raised = "none"
    /\ Len(event.Records) = 0 => posted = <<>>
    /\ (pc = "deliver" /\ ~Entered("deliver")) => ENABLED Deliver
    /\ Entered("deliver") => ~ENABLED Next

C10_Witness ==
    /\ pc = "done"
    /\ steps = Pipeline
    /\ delivery = "HTTPError"
    /\ Len(posted) = 1

====
